---- MODULE Spec2Model ----
(***************************************************************************)
(* Model of hist_generation/polygon_to_mysql.py: configuration resolution, *)
(* the paginated fetch with retry/backoff, the record-to-row transformer   *)
(* and the chunked upsert loader, as run by main(); and of store_result of *)
(* nautilus_trader/backtest/result_store.py.                               *)
(*                                                                         *)
(* Python values are tagged records [k, n, s]: k is the type tag, n the    *)
(* numeric payload (an unbounded integer), s the text payload (a sequence  *)
(* of one-character strings, so that strip/lower/int() are computed).      *)
(* A dict is a function whose DOMAIN is the set of keys present.           *)
(***************************************************************************)
EXTENDS Integers, Sequences, FiniteSets, TLC

VARIABLES
    pc,          \* position of the program (of main, or of the function under test)
    cfg,         \* the loaded configuration document (load_config's result)
    args,        \* parsed command line: ticker, start, end, batch_size
    env,         \* os.environ: STOCK_TICKER
    poly,        \* resolved polygon section (main's `poly`)
    mysql_cfg,   \* resolved mysql section (main's `mysql_cfg`)
    err,         \* the exception that ended the call/run, NoErr if none
    prov,        \* provider: the records one complete pagination walk yields
    failPlan,    \* provider: number of walks that fail before one succeeds
    retries,     \* fetch_aggregates parameter
    backoff_base,\* fetch_aggregates parameter, in hundredths of a second
    attempt,     \* fetch_aggregates local
    items,       \* fetch_aggregates local
    calls,       \* number of client.list_aggs invocations of this fetch
    sleeps,      \* the time.sleep arguments of this fetch, in order
    recs,        \* main's `recs`
    conn,        \* connection state: "none", "open", "closed"
    schema,      \* server: [db, table] existence flags
    store,       \* server: committed rows of `aggregates`
    txn,         \* server: the connection's working set (uncommitted view)
    rows,        \* main's `rows`
    pos,         \* chunked's loop variable i
    total,       \* main's `total`
    issued,      \* history: the batches whose upsert was committed in this run
    execs,       \* history: the number of executemany calls of this run
    store0,      \* history: the committed table when this run started
    ledger,      \* history: per natural key, the row of its latest committed upsert
    rerun,       \* history: this run repeats the completed run before it, same rows
    walkErr,     \* history: the error the latest failed pagination walk raised
    out,         \* progress lines printed: the cumulative totals reported
    prev,        \* history: the outcome of the invocation before this one
    files,       \* file system: per path the text of the file, NoFile if absent
    stored       \* history: the store_result calls made, in order

vars == <<pc, cfg, args, env, poly, mysql_cfg, err, prov, failPlan, retries,
          backoff_base, attempt, items, calls, sleeps, recs, conn, schema,
          store, txn, rows, pos, total, issued, execs, store0, ledger, rerun, walkErr,
          out, prev, files, stored>>

-----------------------------------------------------------------------------
(* Python values *)

(* Python ints are unbounded: a number is a sign and a magnitude, the magnitude
   a little-endian sequence of base-1000 limbs without a leading zero limb *)
Num(neg, mag) == [neg |-> neg, mag |-> mag]
Zero == Num(FALSE, <<>>)

RECURSIVE NatMag(_)
NatMag(n) == IF n = 0 THEN <<>> ELSE <<n % 1000>> \o NatMag(n \div 1000)

\* the number of a (small) model integer
Z(n) == IF n < 0 THEN Num(TRUE, NatMag(0 - n)) ELSE Num(FALSE, NatMag(n))

RECURSIVE Canon(_)
Canon(mag) ==
    IF mag # <<>> /\ mag[Len(mag)] = 0 THEN Canon(SubSeq(mag, 1, Len(mag) - 1)) ELSE mag

MagLess(a, b) ==
    IF Len(a) # Len(b) THEN Len(a) < Len(b)
    ELSE \E i \in 1..Len(a) : a[i] < b[i] /\ \A j \in (i + 1)..Len(a) : a[j] = b[j]

\* a < b
NumLess(a, b) ==
    CASE a.neg /\ ~b.neg -> TRUE
      [] ~a.neg /\ b.neg -> FALSE
      [] a.neg /\ b.neg -> MagLess(b.mag, a.mag)
      [] OTHER -> MagLess(a.mag, b.mag)

\* a * 1000
Mul1000(a) == IF a.mag = <<>> THEN a ELSE Num(a.neg, <<0>> \o a.mag)

V(k, n, s) == [k |-> k, n |-> n, s |-> s]
None == V("none", Zero, <<>>)
IntV(n) == V("int", Z(n), <<>>)
BigV(num) == V("int", num, <<>>)
FloatV(num) == V("float", num, <<>>)
StrV(s) == V("str", Zero, s)
BoolV(b) == V("bool", IF b THEN Z(1) ELSE Zero, <<>>)
EmptyStr == StrV(<<>>)

\* bool(v): Python truthiness, as used by `not p.get(k)` and `if ticker_override`
Truthy(v) ==
    CASE v.k = "none" -> FALSE
      [] v.k = "str" -> v.s # <<>>
      [] OTHER -> v.n # Zero

\* dict.get(k, default)
Get(d, k, default) == IF k \in DOMAIN d THEN d[k] ELSE default

\* an assignment where setdefault is meant: a present value is overwritten
SetDefault_Overwrite(d, k, v) == [x \in DOMAIN d \cup {k} |-> IF x = k THEN v ELSE d[x]]

\* dict.setdefault(k, v) followed by the dict itself
SetDefault(d, k, v) == IF k \in DOMAIN d THEN d ELSE d @@ (k :> v)

\* d[k] = v
SetItem(d, k, v) == [x \in DOMAIN d \cup {k} |-> IF x = k THEN v ELSE d[x]]

Digits == <<"0", "1", "2", "3", "4", "5", "6", "7", "8", "9">>
IsDigit(c) == \E i \in 1..10 : Digits[i] = c
DigitVal(c) == (CHOOSE i \in 1..10 : Digits[i] = c) - 1

RECURSIVE LStrip(_)
LStrip(s) == IF s # <<>> /\ Head(s) = " " THEN LStrip(Tail(s)) ELSE s

RECURSIVE RStrip(_)
RStrip(s) ==
    IF s # <<>> /\ s[Len(s)] = " " THEN RStrip(SubSeq(s, 1, Len(s) - 1)) ELSE s

\* str.strip()
Strip(s) == RStrip(LStrip(s))

\* the value of at most three digits
RECURSIVE LimbValue(_)
LimbValue(s) ==
    IF s = <<>> THEN 0 ELSE 10 * LimbValue(SubSeq(s, 1, Len(s) - 1)) + DigitVal(s[Len(s)])

\* the magnitude of a run of digits, three digits to a limb from the right
RECURSIVE DigitsMag(_)
DigitsMag(s) ==
    IF Len(s) <= 3 THEN <<LimbValue(s)>>
    ELSE <<LimbValue(SubSeq(s, Len(s) - 2, Len(s)))>> \o DigitsMag(SubSeq(s, 1, Len(s) - 3))

Upper == <<"A", "B", "C", "D", "E", "F", "G", "H", "I", "J", "K", "L", "M",
           "N", "O", "P", "Q", "R", "S", "T", "U", "V", "W", "X", "Y", "Z">>
Lower == <<"a", "b", "c", "d", "e", "f", "g", "h", "i", "j", "k", "l", "m",
           "n", "o", "p", "q", "r", "s", "t", "u", "v", "w", "x", "y", "z">>

\* str.lower()
LowerChar(c) ==
    IF \E i \in 1..26 : Upper[i] = c THEN Lower[CHOOSE i \in 1..26 : Upper[i] = c] ELSE c
LowerStr(s) == [i \in 1..Len(s) |-> LowerChar(s[i])]

\* int(s) for a str: optional sign, then at least one digit, after stripping
\* surrounding blanks; anything else is a ValueError
ParseInt(s) ==
    LET result(neg, ok, mag) == [ok |-> ok, n |-> Num(neg /\ mag # <<>>, mag)]
        checked(neg, body, ok) == result(neg, ok, IF ok THEN Canon(DigitsMag(body)) ELSE <<>>)
        signed(neg, body) ==
            checked(neg, body, body # <<>> /\ \A i \in 1..Len(body) : IsDigit(body[i]))
        stripped(t) ==
            signed(t # <<>> /\ Head(t) = "-",
                   IF t # <<>> /\ Head(t) \in {"-", "+"} THEN Tail(t) ELSE t)
    IN  stripped(Strip(s))

RECURSIVE NatToStr(_)
NatToStr(n) ==
    IF n < 10 THEN <<Digits[n + 1]>> ELSE NatToStr(n \div 10) \o <<Digits[(n % 10) + 1]>>

\* one limb below the leading one prints as exactly three digits
Pad3(n) == <<Digits[(n \div 100) + 1], Digits[((n \div 10) % 10) + 1], Digits[(n % 10) + 1]>>

RECURSIVE MagToStr(_)
MagToStr(mag) ==
    IF mag = <<>> THEN <<"0">>
    ELSE IF Len(mag) = 1 THEN NatToStr(mag[1])
    ELSE MagToStr(Tail(mag)) \o Pad3(mag[1])

NumToStr(a) == IF a.neg THEN <<"-">> \o MagToStr(a.mag) ELSE MagToStr(a.mag)

\* str(v)
PyStr(v) ==
    CASE v.k = "str" -> v.s
      [] v.k = "none" -> <<"N", "o", "n", "e">>
      [] v.k = "bool" -> IF v.n # Zero THEN <<"T", "r", "u", "e">> ELSE <<"F", "a", "l", "s", "e">>
      [] v.k = "float" -> NumToStr(v.n) \o <<".", "0">>
      [] OTHER -> NumToStr(v.n)

\* int(v): [ok, n, exc]; exc names the exception when ok is FALSE
PyInt(v) ==
    CASE v.k = "none" -> [ok |-> FALSE, n |-> Zero, exc |-> "TypeError"]
      [] v.k = "str" ->
            LET parsed(r) == [ok |-> r.ok, n |-> r.n, exc |-> IF r.ok THEN "" ELSE "ValueError"]
            IN  parsed(ParseInt(v.s))
      [] OTHER -> [ok |-> TRUE, n |-> v.n, exc |-> ""]

\* float(v): [ok, n]; the model's numbers are whole, so a parsed text is a
\* signed run of digits
PyFloat(v) ==
    CASE v.k = "none" -> [ok |-> FALSE, n |-> Zero]
      [] v.k = "str" -> ParseInt(v.s)
      [] OTHER -> [ok |-> TRUE, n |-> v.n]

-----------------------------------------------------------------------------
(* Exceptions *)

Exc(type, what, fields) == [type |-> type, what |-> what, fields |-> fields]
NoErr == Exc("", "", <<>>)

-----------------------------------------------------------------------------
(* Config loading *)

ASC == <<"a", "s", "c">>
DESC == <<"d", "e", "s", "c">>
MINUTE == <<"m", "i", "n", "u", "t", "e">>
TRUE_TEXT == <<"t", "r", "u", "e">>
DefaultLimit == 50000
DefaultMultiplier == 1

TrueWords == {<<"1">>, TRUE_TEXT, <<"t">>, <<"y", "e", "s">>, <<"y">>}

\* the text compared as written, neither trimmed nor lower-cased
_as_bool_Exact(v, default) ==
    IF v.k = "bool" THEN v.n # Zero
    ELSE IF v.k = "none" THEN default
    ELSE PyStr(v) \in TrueWords

_as_bool(v, default) ==
    IF v.k = "bool" THEN v.n # Zero
    ELSE IF v.k = "none" THEN default
    ELSE LowerStr(Strip(PyStr(v))) \in TrueWords

PolygonRequired ==
    <<"apiKey", "stocksTicker", "start_date", "end_date", "timespan", "multiplier">>
MysqlRequired == <<"host", "port", "database", "username", "password">>

\* [k for k in required if not m.get(k)]
MissingOf(d, required) == SelectSeq(required, LAMBDA k : ~Truthy(Get(d, k, None)))

\* lines 41-51: copy, ticker override, environment, defaults
PolygonMerged(section, ticker_override, environ) ==
    LET fromEnv(p) ==
            SetItem(p, "stocksTicker",
                    Get(environ, "STOCK_TICKER", Get(p, "stocksTicker", EmptyStr)))
        p2 == fromEnv(IF Truthy(ticker_override)
                      THEN SetItem(section, "stocksTicker", ticker_override)
                      ELSE section)
        p3 == SetDefault(p2, "multiplier", IntV(DefaultMultiplier))
        p4 == SetDefault(p3, "timespan", StrV(MINUTE))
        p5 == SetDefault(p4, "adjusted", StrV(TRUE_TEXT))
        p6 == SetDefault(p5, "sort", StrV(ASC))
    IN  SetDefault(p6, "limit", IntV(DefaultLimit))

\* a sort kept whatever it is
NormalizeSort_Keep(sort) == sort

\* line 57: p["sort"] if p["sort"] in ("asc", "desc") else "asc"
NormalizeSort(sort) == IF sort \in {StrV(ASC), StrV(DESC)} THEN sort ELSE StrV(ASC)

\* lines 54-57: normalize types (the int() conversions have succeeded)
PolygonNormalized(p) ==
    LET sorted(q) == SetItem(q, "sort", NormalizeSort(q["sort"]))
        adjusted(q) ==
            sorted(SetItem(q, "adjusted", BoolV(_as_bool(Get(q, "adjusted", None), TRUE))))
        limited(q) == adjusted(SetItem(q, "limit", BigV(PyInt(p["limit"]).n)))
    IN  limited(SetItem(p, "multiplier", BigV(PyInt(p["multiplier"]).n)))

NoCfg == [none |-> TRUE]

\* resolve_polygon_cfg(cfg, ticker_override) under os.environ = environ:
\* [ok, val, err]
resolve_polygon_cfg(doc, ticker_override, environ) ==
    IF "polygon" \notin DOMAIN doc
    THEN [ok |-> FALSE, val |-> NoCfg, err |-> Exc("ValueError", "no polygon section", <<>>)]
    ELSE LET checked(q, missing) ==
                 IF missing # <<>>
                 THEN [ok |-> FALSE, val |-> NoCfg,
                       err |-> Exc("ValueError", "Missing polygon config fields", missing)]
                 ELSE [ok |-> TRUE, val |-> q, err |-> NoErr]
             normalized(q) == checked(q, MissingOf(q, PolygonRequired))
             converted(p, m, l) ==
                 IF ~m.ok
                 THEN [ok |-> FALSE, val |-> NoCfg, err |-> Exc(m.exc, "int(multiplier)", <<>>)]
                 ELSE IF ~l.ok
                 THEN [ok |-> FALSE, val |-> NoCfg, err |-> Exc(l.exc, "int(limit)", <<>>)]
                 ELSE normalized(PolygonNormalized(p))
             merged(p) == converted(p, PyInt(p["multiplier"]), PyInt(p["limit"]))
         IN  merged(PolygonMerged(doc["polygon"], ticker_override, environ))

\* p at the moment resolve_polygon_cfg returns or raises: every write of lines
\* 43-57 that ran
WrittenSection(section, ticker_override, environ) ==
    LET written(p, m, l) ==
            IF ~m.ok THEN p
            ELSE IF ~l.ok THEN SetItem(p, "multiplier", BigV(m.n))
            ELSE PolygonNormalized(p)
        merged(p) == written(p, PyInt(p["multiplier"]), PyInt(p["limit"]))
    IN  merged(PolygonMerged(section, ticker_override, environ))

\* p bound to the section itself: the writes land in the document
SectionAfter_Alias(section, p) == p

\* line 41: p is a copy, so the section of the document keeps its contents
SectionAfter(section, p) == section

\* the caller's document after resolve_polygon_cfg(doc, ticker_override)
DocAfterResolve(doc, ticker_override, environ) ==
    IF "polygon" \notin DOMAIN doc THEN doc
    ELSE LET after(section) == [k \in DOMAIN doc |-> IF k = "polygon" THEN section ELSE doc[k]]
         IN  after(SectionAfter(doc["polygon"],
                                WrittenSection(doc["polygon"], ticker_override, environ)))

\* resolve_mysql_cfg(cfg): [ok, val, err]
resolve_mysql_cfg(doc) ==
    IF "mysql" \notin DOMAIN doc
    THEN [ok |-> FALSE, val |-> NoCfg, err |-> Exc("ValueError", "no mysql section", <<>>)]
    ELSE LET checked(m, missing) ==
                 IF missing # <<>>
                 THEN [ok |-> FALSE, val |-> NoCfg,
                       err |-> Exc("ValueError", "Missing MySQL config fields", missing)]
                 ELSE [ok |-> TRUE, val |-> m, err |-> NoErr]
         IN  checked(doc["mysql"], MissingOf(doc["mysql"], MysqlRequired))

-----------------------------------------------------------------------------
(* Polygon fetch + transform *)

\* A provider record is [kind, f]: kind "dict" for a property bag, "obj" for an
\* object with a __dict__, "slots" for an object without one; f maps the field
\* names present to their values.

\* line 241: a.__dict__ if hasattr(a, "__dict__") else a
AsItem(a) == IF a.kind = "obj" THEN [kind |-> "dict", f |-> a.f] ELSE a

\* the loop run to its end without returning: the last name present decides
RECURSIVE _get_attr_LastWins(_, _, _)
_get_attr_LastWins(obj, names, default) ==
    IF names = <<>> THEN default
    ELSE IF names[Len(names)] \in DOMAIN obj.f THEN obj.f[names[Len(names)]]
    ELSE _get_attr_LastWins(obj, SubSeq(names, 1, Len(names) - 1), default)

\* _get_attr(obj, *names, default): the first name present decides
RECURSIVE _get_attr(_, _, _)
_get_attr(obj, names, default) ==
    IF names = <<>> THEN default
    ELSE IF Head(names) \in DOMAIN obj.f THEN obj.f[Head(names)]
    ELSE _get_attr(obj, Tail(names), default)

\* 10_000_000_000
SecondsThreshold == Num(FALSE, <<0, 0, 0, 10>>)

\* the threshold itself taken for seconds
NormalizeTs_Inclusive(t) == IF NumLess(SecondsThreshold, t) THEN t ELSE Mul1000(t)

\* line 172-173: seconds epoch to milliseconds
NormalizeTs(t) == IF NumLess(t, SecondsThreshold) THEN Mul1000(t) ELSE t

\* datetime.fromtimestamp accepts the years 1..9999, in seconds
MaxEpochSeconds == Num(FALSE, <<799, 300, 402, 253>>)
MinEpochSeconds == Num(TRUE, <<800, 596, 135, 62>>)

\* ts_ms / 1000 as whole seconds and the millisecond remainder
EpochSeconds(ts_ms) ==
    IF ts_ms.mag = <<>> THEN Zero
    ELSE LET m == Tail(ts_ms.mag) IN Num(ts_ms.neg /\ m # <<>>, m)
EpochMillis(ts_ms) == IF ts_ms.mag = <<>> THEN 0 ELSE Head(ts_ms.mag)

DatetimeInRange(ts_ms) ==
    LET sec == EpochSeconds(ts_ms)
    IN  ~NumLess(MaxEpochSeconds, sec) /\ ~NumLess(sec, MinEpochSeconds)

\* line 175: the naive UTC datetime of ts_ms
DtUtc(ts_ms) == [neg |-> ts_ms.neg, sec |-> EpochSeconds(ts_ms), ms |-> EpochMillis(ts_ms)]

\* to_num(x)
to_num(x) ==
    IF x.k = "none" THEN None
    ELSE LET converted(r) == IF r.ok THEN FloatV(r.n) ELSE None IN converted(PyFloat(x))

\* int(v) if v is not None and not isinstance(v, bool) else None: [ok, val, exc]
OptInt(v) ==
    IF v.k = "none" \/ v.k = "bool" THEN [ok |-> TRUE, val |-> None, exc |-> ""]
    ELSE LET converted(r) ==
                 [ok |-> r.ok, val |-> IF r.ok THEN BigV(r.n) ELSE None, exc |-> r.exc]
         IN  converted(PyInt(v))

NoRow == [none |-> TRUE]

\* _to_row(rec, ticker, multiplier, timespan): [ok, val, err]
_to_row(rec, ticker, multiplier, timespan) ==
    LET row(t, ts_ms, v, n) ==
        IF ~t.ok
        THEN [ok |-> FALSE, val |-> NoRow, err |-> Exc(t.exc, "int(timestamp)", <<>>)]
        ELSE IF ~DatetimeInRange(ts_ms)
        THEN [ok |-> FALSE, val |-> NoRow, err |-> Exc("ValueError", "fromtimestamp", <<>>)]
        ELSE IF ~v.ok
        THEN [ok |-> FALSE, val |-> NoRow, err |-> Exc(v.exc, "int(volume)", <<>>)]
        ELSE IF ~n.ok
        THEN [ok |-> FALSE, val |-> NoRow, err |-> Exc(n.exc, "int(transactions)", <<>>)]
        ELSE [ok |-> TRUE, err |-> NoErr,
              val |-> [ticker |-> ticker, multiplier |-> multiplier, timespan |-> timespan,
                       ts_ms |-> ts_ms, dt_utc |-> DtUtc(ts_ms),
                       open |-> to_num(_get_attr(rec, <<"o", "open">>, None)),
                       high |-> to_num(_get_attr(rec, <<"h", "high">>, None)),
                       low |-> to_num(_get_attr(rec, <<"l", "low">>, None)),
                       close |-> to_num(_get_attr(rec, <<"c", "close">>, None)),
                       volume |-> v.val,
                       vwap |-> to_num(_get_attr(rec, <<"vw", "vwap">>, None)),
                       transactions |-> n.val]]
        stamped(t) ==
            row(t, NormalizeTs(t.n), OptInt(_get_attr(rec, <<"v", "volume">>, None)),
                OptInt(_get_attr(rec, <<"n", "transactions">>, None)))
    IN  stamped(PyInt(_get_attr(rec, <<"t", "timestamp">>, None)))

\* a record whose transformation fails is left out and the rest kept
RECURSIVE ToRows_SkipBad(_, _, _, _)
ToRows_SkipBad(rs, ticker, multiplier, timespan) ==
    IF rs = <<>> THEN [ok |-> TRUE, val |-> <<>>, err |-> NoErr]
    ELSE LET more(r, rest) ==
                 [ok |-> TRUE, val |-> (IF r.ok THEN <<r.val>> ELSE <<>>) \o rest.val,
                  err |-> NoErr]
         IN  more(_to_row(Head(rs), ticker, multiplier, timespan),
                  ToRows_SkipBad(Tail(rs), ticker, multiplier, timespan))

\* line 295: the list comprehension over recs; the first failing record raises
RECURSIVE ToRows(_, _, _, _)
ToRows(rs, ticker, multiplier, timespan) ==
    IF rs = <<>> THEN [ok |-> TRUE, val |-> <<>>, err |-> NoErr]
    ELSE LET more(r, rest) ==
                 IF ~rest.ok THEN rest
                 ELSE [ok |-> TRUE, val |-> <<r.val>> \o rest.val, err |-> NoErr]
             first(r) ==
                 IF ~r.ok THEN [ok |-> FALSE, val |-> <<>>, err |-> r.err]
                 ELSE more(r, ToRows(Tail(rs), ticker, multiplier, timespan))
         IN  first(_to_row(Head(rs), ticker, multiplier, timespan))

\* line 247: backoff_base * (2 ** (attempt - 1))
RECURSIVE Pow2(_)
Pow2(n) == IF n <= 0 THEN 1 ELSE 2 * Pow2(n - 1)
\* the exponent not reduced by one
sleep_s_NoOffset(base, att) == base * Pow2(att)

sleep_s(base, att) == base * Pow2(att - 1)

\* the budget test off by one, one retry short
BudgetExceeded_Early(att, budget) == att >= budget

\* the budget test off by one, one retry long
BudgetExceeded_Late(att, budget) == att > budget + 1

\* line 245: the retry budget is spent
BudgetExceeded(att, budget) == att > budget

-----------------------------------------------------------------------------
(* MySQL helpers *)

\* PRIMARY KEY (ticker, multiplier, timespan, ts_ms)
PrimaryKey(r) == <<r.ticker, r.multiplier, r.timespan, r.ts_ms>>

\* the columns NOT NULL of CREATE_TABLE_SQL beyond the key
NotNullOK(r) == \A c \in {"open", "high", "low", "close"} : r[c].k # "none"

\* an update list that leaves `close` out
OnDuplicateUpdate_NoClose(old, new) ==
    [old EXCEPT !.open = new.open, !.high = new.high, !.low = new.low,
                !.volume = new.volume, !.vwap = new.vwap,
                !.transactions = new.transactions]

\* an update list that takes `high` from VALUES(`low`)
OnDuplicateUpdate_Crossed(old, new) ==
    [old EXCEPT !.open = new.open, !.high = new.low, !.low = new.low,
                !.close = new.close, !.volume = new.volume, !.vwap = new.vwap,
                !.transactions = new.transactions]

\* ON DUPLICATE KEY UPDATE: the columns overwritten from VALUES()
OnDuplicateUpdate(old, new) ==
    [old EXCEPT !.open = new.open, !.high = new.high, !.low = new.low,
                !.close = new.close, !.volume = new.volume, !.vwap = new.vwap,
                !.transactions = new.transactions]

\* INSERT_SQL for one row against table t
Upsert(t, r) ==
    IF \E x \in t : PrimaryKey(x) = PrimaryKey(r)
    THEN {IF PrimaryKey(x) = PrimaryKey(r) THEN OnDuplicateUpdate(x, r) ELSE x : x \in t}
    ELSE t \cup {r}

\* the rows of the batch applied last first, so that the first row of a
\* repeated key stays
RECURSIVE ExecuteMany_Reversed(_, _)
ExecuteMany_Reversed(t, batch) ==
    IF batch = <<>> THEN t
    ELSE ExecuteMany_Reversed(Upsert(t, batch[Len(batch)]), SubSeq(batch, 1, Len(batch) - 1))

\* cur.executemany(INSERT_SQL, batch): the rows in order
RECURSIVE ExecuteMany(_, _)
ExecuteMany(t, batch) ==
    IF batch = <<>> THEN t ELSE ExecuteMany(Upsert(t, Head(batch)), Tail(batch))

\* iterable[i:i + size], i >= 0 (0-based i)
Slice(xs, i, j) ==
    LET hi == IF j < 0 THEN (IF Len(xs) + j < 0 THEN 0 ELSE Len(xs) + j)
              ELSE IF j > Len(xs) THEN Len(xs) ELSE j
    IN  IF hi <= i THEN <<>> ELSE SubSeq(xs, i + 1, hi)

\* a range that includes its stop
InRange_Closed(i, n, size) == IF size > 0 THEN i <= n ELSE i >= n

\* chunked's loop test: range(0, len(iterable), size) has an element at i
InRange(i, n, size) == IF size > 0 THEN i < n ELSE i > n

\* chunked(iterable, size) for size # 0, as the list of its batches
RECURSIVE ChunksFrom(_, _, _)
ChunksFrom(iterable, size, i) ==
    IF InRange(i, Len(iterable), size)
    THEN <<Slice(iterable, i, i + size)>> \o ChunksFrom(iterable, size, i + size)
    ELSE <<>>
chunked(iterable, size) == ChunksFrom(iterable, size, 0)

\* a connection opened with autocommit=True
Autocommit_On == TRUE

\* autocommit=False (line 125)
Autocommit == FALSE

-----------------------------------------------------------------------------
(* Inputs: the bounded sets the runs draw from *)

S_k == <<"k">>
XYZ == <<"X", "Y", "Z">>
ABC == <<"A", "B", "C">>
ENVT == <<"E", "N", "V">>
D1 == <<"d", "1">>
D2 == <<"d", "2">>
DAY == <<"D", "a", "y">>

Absent == V("absent", Zero, <<>>)

\* the dict of a record of values: the fields marked Absent are not keys
Dict(r) == [k \in {x \in DOMAIN r : r[x] # Absent} |-> r[k]]
EmptyDict == Dict([none |-> Absent])

ValidPolygon ==
    Dict([apiKey |-> StrV(S_k), stocksTicker |-> StrV(XYZ), start_date |-> StrV(D1),
          end_date |-> StrV(D2), timespan |-> StrV(MINUTE), multiplier |-> IntV(1)])

ValidMysql ==
    Dict([host |-> StrV(<<"h">>), port |-> IntV(3306), database |-> StrV(<<"d", "b">>),
          username |-> StrV(<<"u">>), password |-> StrV(<<"p">>)])

\* polygon sections for the resolver: every required field absent, empty or set
PolygonSections ==
    {Dict(r) : r \in
        [apiKey : {Absent, EmptyStr, StrV(S_k)},
         stocksTicker : {Absent, EmptyStr, StrV(XYZ)},
         start_date : {Absent, None, StrV(D1)},
         end_date : {Absent, StrV(D2)},
         timespan : {Absent, EmptyStr, StrV(DAY)},
         multiplier : {Absent, None, EmptyStr, StrV(<<"2">>), StrV(<<"x">>), IntV(0), IntV(1)},
         adjusted : {Absent, StrV(<<"n", "o">>)},
         sort : {Absent, StrV(DESC)},
         limit : {Absent, StrV(<<"1", "0">>)}]}

CfgDocs == {Dict([polygon |-> Absent, mysql |-> Absent])}
           \cup {[polygon |-> sec, mysql |-> ValidMysql] : sec \in PolygonSections}

\* polygon sections with every required field set, for the normalization of
\* the optional ones: each absent, well-formed or malformed
OptionSections ==
    {Dict(r) : r \in
        [apiKey : {StrV(S_k)},
         stocksTicker : {StrV(XYZ)},
         start_date : {StrV(D1)},
         end_date : {StrV(D2)},
         timespan : {Absent, StrV(DAY), StrV(<<"d", "a", "y">>), StrV(<<"e", "o", "n">>)},
         multiplier : {Absent, IntV(1), IntV(-1), StrV(<<"2">>)},
         adjusted : {Absent, None, BoolV(TRUE), BoolV(FALSE), IntV(1), IntV(0),
                     StrV(<<" ", "Y", "E", "S", " ">>), StrV(<<"T">>), StrV(<<"n", "o">>),
                     StrV(<<"o", "n">>)},
         sort : {Absent, None, StrV(ASC), StrV(DESC), StrV(<<"A", "S", "C">>),
                 StrV(<<"d", "o", "w", "n">>)},
         limit : {Absent, IntV(0), IntV(-5), StrV(<<"1", "0">>)}]}

OptionDocs == {[polygon |-> sec, mysql |-> ValidMysql] : sec \in OptionSections}

TickerOverrides == {None, StrV(ABC)}
Environs == {EmptyDict, Dict([STOCK_TICKER |-> EmptyStr]), Dict([STOCK_TICKER |-> StrV(ENVT)])}

\* documents for whole runs: each section valid, absent, or lacking a field
MainDocs ==
    {Dict([polygon |-> pg, mysql |-> my]) :
        pg \in {Absent, ValidPolygon, [ValidPolygon EXCEPT !.apiKey = EmptyStr]},
        my \in {Absent, ValidMysql, [ValidMysql EXCEPT !.host = EmptyStr]}}

BatchSizeDefault == 1000
BatchSizes == {-1, 0, 1, 2, BatchSizeDefault}

Args(ticker, start, end, batch_size) ==
    [ticker |-> ticker, start |-> start, end |-> end, batch_size |-> batch_size]
MainArgs == {Args(None, None, None, b) : b \in {1, BatchSizeDefault}}

Bar(t, c) ==
    [t |-> IntV(t), o |-> IntV(5), h |-> IntV(9), l |-> IntV(4), c |-> IntV(c),
     v |-> IntV(7), vw |-> IntV(6), n |-> IntV(3)]
LongBar(t, c) ==
    [timestamp |-> IntV(t), open |-> IntV(5), high |-> IntV(9), low |-> IntV(4),
     close |-> IntV(c), volume |-> IntV(7), vwap |-> IntV(6), transactions |-> IntV(3)]

\* what the provider yields: two bars of one timestamp with different closes
\* (one of them an object), and a bar of another timestamp under long names
ProvRecs ==
    {[kind |-> "dict", f |-> Bar(1, 10)], [kind |-> "obj", f |-> Bar(1, 20)],
     [kind |-> "dict", f |-> LongBar(2, 10)]}

\* what fetch_aggregates may hand to the loader, and a record with no timestamp
LoadRecs ==
    {AsItem(a) : a \in ProvRecs} \cup {[kind |-> "dict", f |-> [c |-> IntV(10)]]}

MaxProv == 2
MaxMainProv == 1
MaxRecs == 3
MaxRetries == 5
DefaultRetries == 5
DefaultBackoff == 75

SeqsUpTo(S, n) == UNION {[1..m -> S] : m \in 0..n}

ProviderErrors == {"transient", "permanent"}
BackoffBases == {DefaultBackoff, 100}

-----------------------------------------------------------------------------
(* Process state *)

\* the paths store_result is given
Paths == {"a.jsonl", "out/b.jsonl"}

\* a path with neither its directory nor its file: [dir, exists, text], the
\* text a sequence of JSON tokens
NoFile == [dir |-> FALSE, exists |-> FALSE, text |-> <<>>]

\* no earlier invocation, no file written
NoSide == prev = NoCfg /\ files = [p \in Paths |-> NoFile] /\ stored = <<>>

\* the locals of a process that has not started
Idle ==
    /\ pc = "idle"
    /\ cfg = EmptyDict /\ args = Args(None, None, None, BatchSizeDefault) /\ env = EmptyDict
    /\ poly = NoCfg /\ mysql_cfg = NoCfg /\ err = NoErr
    /\ prov = <<>> /\ failPlan = 0 /\ retries = DefaultRetries
    /\ backoff_base = DefaultBackoff
    /\ attempt = 0 /\ items = <<>> /\ calls = 0 /\ sleeps = <<>> /\ recs = <<>>
    /\ conn = "none" /\ txn = {} /\ rows = <<>> /\ pos = 0 /\ total = 0
    /\ issued = <<>> /\ execs = 0 /\ walkErr = "" /\ out = <<>>

serverVars == <<schema, store, ledger>>
fetchVars == <<prov, failPlan, retries, backoff_base, attempt, items, calls, sleeps, walkErr>>
loadVars == <<conn, txn, rows, pos, total, issued, execs, out>>
inputVars == <<cfg, args, env>>
sideVars == <<prev, files, stored>>

-----------------------------------------------------------------------------
(* Main flow *)

\* a new process: the command line, the document, the environment, and what
\* the provider will do when asked
StartRun ==
    /\ pc = "idle"
    /\ pc' = "start"
    /\ cfg' \in MainDocs
    /\ args' \in MainArgs
    /\ env' = EmptyDict
    /\ prov' \in SeqsUpTo(ProvRecs, MaxMainProv)
    /\ failPlan' \in 0..(DefaultRetries + 1)
    /\ store0' = store
    /\ UNCHANGED <<poly, mysql_cfg, err, retries, backoff_base, attempt, items, calls,
                   sleeps, walkErr, recs, rerun>>
    /\ UNCHANGED sideVars
    /\ UNCHANGED loadVars
    /\ UNCHANGED serverVars

\* lines 268-271: the date overrides, applied to the resolved section
DateOverrides(p, a) ==
    LET ended(p1) == IF Truthy(a.end) THEN SetItem(p1, "end_date", a.end) ELSE p1
    IN  ended(IF Truthy(a.start) THEN SetItem(p, "start_date", a.start) ELSE p)

\* the mysql section read without resolve_mysql_cfg: nothing is checked until
\* mysql_connect reads the keys
MainConfig_LazyMysql(doc, a, environ) ==
    LET resolved(rp) ==
        IF ~rp.ok THEN [ok |-> FALSE, poly |-> NoCfg, mysql |-> NoCfg, err |-> rp.err]
        ELSE [ok |-> TRUE, poly |-> DateOverrides(rp.val, a),
              mysql |-> Get(doc, "mysql", EmptyDict), err |-> NoErr]
    IN  resolved(resolve_polygon_cfg(doc, a.ticker, environ))

\* lines 264-271: [ok, poly, mysql, err]
MainConfig(doc, a, environ) ==
    LET resolved(rp, rm) ==
        IF ~rp.ok THEN [ok |-> FALSE, poly |-> NoCfg, mysql |-> NoCfg, err |-> rp.err]
        ELSE IF ~rm.ok THEN [ok |-> FALSE, poly |-> NoCfg, mysql |-> NoCfg, err |-> rm.err]
        ELSE [ok |-> TRUE, poly |-> DateOverrides(rp.val, a), mysql |-> rm.val, err |-> NoErr]
    IN  resolved(resolve_polygon_cfg(doc, a.ticker, environ), resolve_mysql_cfg(doc))

\* main, lines 264-276: resolve the configuration, build the client
main_config ==
    /\ pc = "start"
    /\ \E r \in {MainConfig(cfg, args, env)} :
           /\ poly' = r.poly
           /\ mysql_cfg' = r.mysql
           /\ err' = r.err
           /\ pc' = IF r.ok THEN "fetch" ELSE "exit_err"
    /\ UNCHANGED <<recs, store0, rerun>>
    /\ UNCHANGED inputVars
    /\ UNCHANGED sideVars
    /\ UNCHANGED fetchVars
    /\ UNCHANGED loadVars
    /\ UNCHANGED serverVars

\* the items one walk appends: line 241 for each record yielded
RECURSIVE AsItems(_)
AsItems(rs) == IF rs = <<>> THEN <<>> ELSE <<AsItem(Head(rs))>> \o AsItems(Tail(rs))

\* fetch_aggregates, one pass of `while True` in which list_aggs raises after
\* yielding k records: lines 230-249
fetch_walk_fails ==
    /\ pc = "fetch"
    /\ calls < failPlan
    /\ \E k \in 0..Len(prov), e \in ProviderErrors :
          /\ items' = items \o AsItems(SubSeq(prov, 1, k))
          /\ walkErr' = e
          /\ attempt' = attempt + 1
          /\ calls' = calls + 1
          /\ IF BudgetExceeded(attempt + 1, retries)
             THEN /\ err' = Exc(e, "list_aggs", <<>>)
                  /\ pc' = "exit_err"
                  /\ sleeps' = sleeps
             ELSE /\ err' = err
                  /\ pc' = "fetch"
                  /\ sleeps' = Append(sleeps, sleep_s(backoff_base, attempt + 1))
    /\ UNCHANGED <<poly, mysql_cfg, prov, failPlan, retries, backoff_base, recs, store0,
                   rerun>>
    /\ UNCHANGED inputVars
    /\ UNCHANGED sideVars
    /\ UNCHANGED loadVars
    /\ UNCHANGED serverVars

\* fetch_aggregates, the pass in which the walk completes: lines 230-242, 250
fetch_walk_completes ==
    /\ pc = "fetch"
    /\ calls >= failPlan
    /\ items' = items \o AsItems(prov)
    /\ calls' = calls + 1
    /\ recs' = items'
    /\ pc' = "fetched"
    /\ UNCHANGED <<poly, mysql_cfg, err, prov, failPlan, retries, backoff_base, attempt,
                   sleeps, walkErr, store0, rerun>>
    /\ UNCHANGED inputVars
    /\ UNCHANGED sideVars
    /\ UNCHANGED loadVars
    /\ UNCHANGED serverVars

\* mysql_connect: every key is read, the port converted; the server refuses a
\* database it does not have
ConnectArgsOK(m) ==
    /\ {"host", "port", "username", "password"} \subseteq DOMAIN m
    /\ PyInt(m["port"]).ok

\* main, line 292: connect, or fail to
main_connect ==
    /\ pc = "fetched"
    /\ \/ /\ ConnectArgsOK(mysql_cfg)
          /\ schema.db
          /\ conn' = "open"
          /\ txn' = store
          /\ pc' = "prepare"
          /\ err' = err
       \/ /\ conn' = conn
          /\ txn' = txn
          /\ pc' = "exit_err"
          /\ err' = Exc("Error", "mysql_connect", <<>>)
    /\ UNCHANGED <<poly, mysql_cfg, recs, rows, pos, total, issued, execs, out, store0, rerun>>
    /\ UNCHANGED inputVars
    /\ UNCHANGED sideVars
    /\ UNCHANGED fetchVars
    /\ UNCHANGED serverVars

\* mysql_prepare without its CREATE TABLE statement
PreparedSchema_NoTable(sch) == [db |-> TRUE, table |-> sch.table]

\* mysql_prepare, lines 133-136: CREATE DATABASE IF NOT EXISTS, USE,
\* CREATE TABLE IF NOT EXISTS, commit
PreparedSchema(sch) == [db |-> TRUE, table |-> TRUE]

\* main, line 294: mysql_prepare creates what is absent and commits, or fails
main_prepare ==
    /\ pc = "prepare"
    /\ \/ /\ schema' = PreparedSchema(schema)
          /\ pc' = "transform"
          /\ err' = err
       \/ /\ schema' = schema
          /\ pc' = "unwind"
          /\ err' = Exc("Error", "mysql_prepare", <<>>)
    /\ UNCHANGED <<poly, mysql_cfg, recs, store, ledger, store0, rerun>>
    /\ UNCHANGED inputVars
    /\ UNCHANGED sideVars
    /\ UNCHANGED fetchVars
    /\ UNCHANGED loadVars

\* main, lines 295-298: transform every record, then start the load loop
main_transform ==
    /\ pc = "transform"
    /\ \E r \in {ToRows(recs, poly["stocksTicker"], poly["multiplier"], poly["timespan"])} :
           /\ rows' = r.val
           /\ err' = r.err
           /\ pc' = IF r.ok THEN "load" ELSE "unwind"
    /\ pos' = 0
    /\ total' = 0
    /\ UNCHANGED <<poly, mysql_cfg, recs, conn, txn, issued, execs, out, store0, rerun>>
    /\ UNCHANGED inputVars
    /\ UNCHANGED sideVars
    /\ UNCHANGED fetchVars
    /\ UNCHANGED serverVars

\* the batch the loop is at: iterable[i:i + size]
CurrentBatch == Slice(rows, pos, pos + args.batch_size)

\* the table after the statement wrote `written` on a connection whose working
\* set is t: with autocommit the server commits each write
Committed(t, commit) == IF commit \/ Autocommit THEN t ELSE store

\* the history of the latest committed upsert per key
RECURSIVE Record(_, _)
Record(led, batch) ==
    IF batch = <<>> THEN led
    ELSE Record(SetItem(led, PrimaryKey(Head(batch)), Head(batch)), Tail(batch))

\* the counter advanced by the batch size, not by the rows of the batch
NextTotal_BySize(t, batch) == t + args.batch_size

\* line 303: total += len(batch)
NextTotal(t, batch) == t + Len(batch)

\* main, lines 300-304: one batch is upserted and committed
main_batch_commits ==
    /\ pc = "load"
    /\ args.batch_size # 0
    /\ InRange(pos, Len(rows), args.batch_size)
    /\ schema.table
    /\ \A j \in 1..Len(CurrentBatch) : NotNullOK(CurrentBatch[j])
    /\ txn' = ExecuteMany(txn, CurrentBatch)
    /\ store' = Committed(txn', TRUE)
    /\ ledger' = Record(ledger, CurrentBatch)
    /\ total' = NextTotal(total, CurrentBatch)
    /\ out' = Append(out, total')
    /\ issued' = Append(issued, CurrentBatch)
    /\ execs' = execs + 1
    /\ pos' = pos + args.batch_size
    /\ UNCHANGED <<pc, poly, mysql_cfg, err, recs, conn, rows, schema, store0, rerun>>
    /\ UNCHANGED inputVars
    /\ UNCHANGED sideVars
    /\ UNCHANGED fetchVars

\* main, lines 300-302: executemany or commit raises after the statement wrote
\* the first j rows of the batch
main_batch_fails ==
    /\ pc = "load"
    /\ args.batch_size # 0
    /\ InRange(pos, Len(rows), args.batch_size)
    /\ \E j \in 0..Len(CurrentBatch) :
          /\ \A i \in 1..j : NotNullOK(CurrentBatch[i])
          /\ schema.table \/ j = 0
          /\ txn' = ExecuteMany(txn, SubSeq(CurrentBatch, 1, j))
          /\ store' = Committed(txn', FALSE)
          /\ ledger' = IF Autocommit THEN Record(ledger, SubSeq(CurrentBatch, 1, j)) ELSE ledger
    /\ err' = Exc("Error", "upsert", <<>>)
    /\ execs' = execs + 1
    /\ pc' = "unwind"
    /\ UNCHANGED <<poly, mysql_cfg, recs, conn, rows, pos, total, issued, out, schema, store0,
                   rerun>>
    /\ UNCHANGED inputVars
    /\ UNCHANGED sideVars
    /\ UNCHANGED fetchVars

\* main, line 300: the loop ends, or range() rejects a zero step
main_loop_ends ==
    /\ pc = "load"
    /\ \/ /\ args.batch_size = 0
          /\ err' = Exc("ValueError", "range() arg 3 must not be zero", <<>>)
       \/ /\ args.batch_size # 0
          /\ ~InRange(pos, Len(rows), args.batch_size)
          /\ err' = err
    /\ pc' = "unwind"
    /\ UNCHANGED <<poly, mysql_cfg, recs, store0, rerun>>
    /\ UNCHANGED inputVars
    /\ UNCHANGED sideVars
    /\ UNCHANGED fetchVars
    /\ UNCHANGED loadVars
    /\ UNCHANGED serverVars

\* main, lines 305-310: the finally blocks close the cursor and the connection;
\* the server discards what the connection has not committed
main_close ==
    /\ pc = "unwind"
    /\ conn' = "closed"
    /\ txn' = {}
    /\ pc' = IF err = NoErr THEN "done" ELSE "exit_err"
    /\ UNCHANGED <<poly, mysql_cfg, err, recs, rows, pos, total, issued, execs, out, store0, rerun>>
    /\ UNCHANGED inputVars
    /\ UNCHANGED sideVars
    /\ UNCHANGED fetchVars
    /\ UNCHANGED serverVars

\* the process is gone; the server's state stays
ResetLocals ==
    /\ pc' = "idle"
    /\ cfg' = EmptyDict /\ args' = Args(None, None, None, BatchSizeDefault) /\ env' = EmptyDict
    /\ poly' = NoCfg /\ mysql_cfg' = NoCfg /\ err' = NoErr
    /\ prov' = <<>> /\ failPlan' = 0 /\ retries' = DefaultRetries
    /\ backoff_base' = DefaultBackoff
    /\ attempt' = 0 /\ items' = <<>> /\ calls' = 0 /\ sleeps' = <<>> /\ recs' = <<>>
    /\ conn' = "none" /\ txn' = {} /\ rows' = <<>> /\ pos' = 0 /\ total' = 0
    /\ issued' = <<>> /\ execs' = 0 /\ walkErr' = "" /\ out' = <<>>

process_exit ==
    /\ pc \in {"done", "exit_err"}
    /\ ResetLocals
    /\ rerun' = FALSE
    /\ UNCHANGED store0
    /\ UNCHANGED sideVars
    /\ UNCHANGED serverVars

Init ==
    /\ Idle
    /\ schema \in {[db |-> d, table |-> FALSE] : d \in BOOLEAN}
    /\ store = {}
    /\ store0 = {}
    /\ ledger = EmptyDict
    /\ rerun = FALSE
    /\ NoSide

Next ==
    \/ StartRun
    \/ main_config
    \/ fetch_walk_fails
    \/ fetch_walk_completes
    \/ main_connect
    \/ main_prepare
    \/ main_transform
    \/ main_batch_commits
    \/ main_batch_fails
    \/ main_loop_ends
    \/ main_close
    \/ process_exit

Spec == Init /\ [][Next]_vars

-----------------------------------------------------------------------------
(* The loader alone: main from line 292 on, over runs that fetched `recs` *)

ResolvedPolygon == resolve_polygon_cfg([polygon |-> ValidPolygon], None, EmptyDict).val

StartLoad ==
    /\ pc = "idle"
    /\ pc' = "fetched"
    /\ cfg' = [polygon |-> ValidPolygon, mysql |-> ValidMysql]
    /\ \E b \in BatchSizes : args' = Args(None, None, None, b)
    /\ poly' = ResolvedPolygon
    /\ mysql_cfg' = ValidMysql
    /\ recs' \in SeqsUpTo(LoadRecs, MaxRecs)
    /\ store0' = store
    /\ UNCHANGED <<env, err, rerun>>
    /\ UNCHANGED sideVars
    /\ UNCHANGED fetchVars
    /\ UNCHANGED loadVars
    /\ UNCHANGED serverVars

\* the same command is run again after a run that completed, and fetches the
\* same records
RerunLoad ==
    /\ pc = "done"
    /\ pc' = "fetched"
    /\ rerun' = TRUE
    /\ store0' = store
    /\ conn' = "none" /\ txn' = {} /\ rows' = <<>> /\ pos' = 0 /\ total' = 0
    /\ issued' = <<>> /\ execs' = 0 /\ out' = <<>>
    /\ UNCHANGED <<poly, mysql_cfg, err, recs>>
    /\ UNCHANGED inputVars
    /\ UNCHANGED sideVars
    /\ UNCHANGED fetchVars
    /\ UNCHANGED serverVars

InitLoad ==
    /\ Idle
    /\ schema \in {[db |-> TRUE, table |-> t] : t \in BOOLEAN}
    /\ store = {}
    /\ store0 = {}
    /\ ledger = EmptyDict
    /\ rerun = FALSE
    /\ NoSide

NextLoad ==
    \/ StartLoad
    \/ main_connect
    \/ main_prepare
    \/ main_transform
    \/ main_batch_commits
    \/ main_batch_fails
    \/ main_loop_ends
    \/ main_close
    \/ RerunLoad
    \/ process_exit

SpecLoad == InitLoad /\ [][NextLoad]_vars

-----------------------------------------------------------------------------
(* fetch_aggregates alone, for every retry budget and provider *)

InitFetch ==
    /\ pc = "fetch"
    /\ cfg = [polygon |-> ValidPolygon, mysql |-> ValidMysql]
    /\ args = Args(None, None, None, BatchSizeDefault) /\ env = EmptyDict
    /\ poly = ResolvedPolygon /\ mysql_cfg = ValidMysql /\ err = NoErr
    /\ prov \in SeqsUpTo(ProvRecs, MaxProv)
    /\ failPlan \in 0..(MaxRetries + 1)
    /\ retries \in 0..MaxRetries
    /\ backoff_base \in BackoffBases
    /\ attempt = 0 /\ items = <<>> /\ calls = 0 /\ sleeps = <<>> /\ recs = <<>>
    /\ conn = "none" /\ txn = {} /\ rows = <<>> /\ pos = 0 /\ total = 0
    /\ issued = <<>> /\ execs = 0 /\ walkErr = "" /\ out = <<>>
    /\ schema = [db |-> TRUE, table |-> FALSE]
    /\ store = {} /\ store0 = {} /\ ledger = EmptyDict /\ rerun = FALSE
    /\ NoSide

NextFetch ==
    \/ fetch_walk_fails
    \/ fetch_walk_completes

SpecFetch == InitFetch /\ [][NextFetch]_vars

\* the function runs on: a pass of the loop that can be taken is taken
FairSpecFetch == SpecFetch /\ WF_vars(NextFetch)

-----------------------------------------------------------------------------
(* resolve_polygon_cfg alone, for every document, override and environment *)

InitCfg ==
    /\ pc = "resolve"
    /\ cfg \in CfgDocs \cup OptionDocs
    /\ \E t \in TickerOverrides : args = Args(t, None, None, BatchSizeDefault)
    /\ env \in Environs
    /\ poly = NoCfg /\ mysql_cfg = NoCfg /\ err = NoErr
    /\ prov = <<>> /\ failPlan = 0 /\ retries = DefaultRetries
    /\ backoff_base = DefaultBackoff
    /\ attempt = 0 /\ items = <<>> /\ calls = 0 /\ sleeps = <<>> /\ recs = <<>>
    /\ conn = "none" /\ txn = {} /\ rows = <<>> /\ pos = 0 /\ total = 0
    /\ issued = <<>> /\ execs = 0 /\ walkErr = "" /\ out = <<>>
    /\ schema = [db |-> TRUE, table |-> FALSE]
    /\ store = {} /\ store0 = {} /\ ledger = EmptyDict /\ rerun = FALSE
    /\ NoSide

\* poly = resolve_polygon_cfg(cfg, args.ticker)
call_resolve_polygon_cfg ==
    /\ pc = "resolve"
    /\ \E r \in {resolve_polygon_cfg(cfg, args.ticker, env)} :
           /\ poly' = r.val
           /\ err' = r.err
           /\ pc' = IF r.ok THEN "resolved" ELSE "raised"
    /\ cfg' = DocAfterResolve(cfg, args.ticker, env)
    /\ UNCHANGED <<mysql_cfg, recs, store0, rerun, args, env>>
    /\ UNCHANGED sideVars
    /\ UNCHANGED fetchVars
    /\ UNCHANGED loadVars
    /\ UNCHANGED serverVars

NextCfg == call_resolve_polygon_cfg

SpecCfg == InitCfg /\ [][NextCfg]_vars

-----------------------------------------------------------------------------
(* main's configuration step alone (lines 264-271), for every combination of
   document fields and command-line overrides *)

S1 == <<"s", "1">>
E1 == <<"e", "1">>

\* documents that lack the ticker or a date, or hold them
OverrideDocs ==
    {[polygon |-> Dict(r), mysql |-> ValidMysql] : r \in
        [apiKey : {EmptyStr, StrV(S_k)},
         stocksTicker : {Absent, StrV(XYZ)},
         start_date : {Absent, EmptyStr, StrV(D1)},
         end_date : {Absent, StrV(D2)},
         timespan : {StrV(MINUTE)},
         multiplier : {IntV(1)}]}

\* command lines with and without --ticker, --start, --end
OverrideArgs ==
    {Args(t, st, en, BatchSizeDefault) :
        t \in TickerOverrides, st \in {None, StrV(S1)}, en \in {None, StrV(E1)}}

InitMainCfg ==
    /\ pc = "start"
    /\ cfg \in OverrideDocs
    /\ args \in OverrideArgs
    /\ env \in {EmptyDict, Dict([STOCK_TICKER |-> StrV(ENVT)])}
    /\ poly = NoCfg /\ mysql_cfg = NoCfg /\ err = NoErr
    /\ prov = <<>> /\ failPlan = 0 /\ retries = DefaultRetries
    /\ backoff_base = DefaultBackoff
    /\ attempt = 0 /\ items = <<>> /\ calls = 0 /\ sleeps = <<>> /\ recs = <<>>
    /\ conn = "none" /\ txn = {} /\ rows = <<>> /\ pos = 0 /\ total = 0
    /\ issued = <<>> /\ execs = 0 /\ walkErr = "" /\ out = <<>>
    /\ schema = [db |-> TRUE, table |-> FALSE]
    /\ store = {} /\ store0 = {} /\ ledger = EmptyDict /\ rerun = FALSE
    /\ NoSide

NextMainCfg == main_config

SpecMainCfg == InitMainCfg /\ [][NextMainCfg]_vars

-----------------------------------------------------------------------------
(* resolve_polygon_cfg invoked twice with the same document object and ticker
   override; the environment of the second invocation is whatever it is *)

\* documents for the two invocations: valid, lacking a field, with text to
\* convert, with a conversion that raises
TwiceSections ==
    {Dict(r) : r \in
        [apiKey : {EmptyStr, StrV(S_k)},
         stocksTicker : {Absent, StrV(XYZ)},
         start_date : {StrV(D1)},
         end_date : {StrV(D2)},
         timespan : {Absent, StrV(DAY)},
         multiplier : {Absent, StrV(<<"2">>), StrV(<<"x">>)},
         adjusted : {Absent, StrV(<<"n", "o">>)},
         sort : {Absent, StrV(<<"A", "S", "C">>)},
         limit : {Absent, StrV(<<"1", "0">>)}]}

TwiceDocs == {Dict([polygon |-> Absent, mysql |-> Absent])}
             \cup {[polygon |-> sec, mysql |-> ValidMysql] : sec \in TwiceSections}

InitCfgTwice ==
    /\ pc = "resolve"
    /\ cfg \in TwiceDocs
    /\ \E t \in TickerOverrides : args = Args(t, None, None, BatchSizeDefault)
    /\ env \in Environs
    /\ poly = NoCfg /\ mysql_cfg = NoCfg /\ err = NoErr
    /\ prov = <<>> /\ failPlan = 0 /\ retries = DefaultRetries
    /\ backoff_base = DefaultBackoff
    /\ attempt = 0 /\ items = <<>> /\ calls = 0 /\ sleeps = <<>> /\ recs = <<>>
    /\ conn = "none" /\ txn = {} /\ rows = <<>> /\ pos = 0 /\ total = 0
    /\ issued = <<>> /\ execs = 0 /\ walkErr = "" /\ out = <<>>
    /\ schema = [db |-> TRUE, table |-> FALSE]
    /\ store = {} /\ store0 = {} /\ ledger = EmptyDict /\ rerun = FALSE
    /\ NoSide

\* what an invocation left: returned or raised, the value, the error
Outcome == [ok |-> pc \in {"resolved", "resolved_again"}, val |-> poly, err |-> err]

\* the second invocation: same cfg object, same ticker override, the
\* environment of that moment
call_resolve_polygon_cfg_again ==
    /\ pc \in {"resolved", "raised"}
    /\ prev' = Outcome
    /\ \E e \in Environs :
          /\ env' = e
          /\ cfg' = DocAfterResolve(cfg, args.ticker, e)
          /\ \E r \in {resolve_polygon_cfg(cfg, args.ticker, e)} :
                /\ poly' = r.val
                /\ err' = r.err
                /\ pc' = IF r.ok THEN "resolved_again" ELSE "raised_again"
    /\ UNCHANGED <<mysql_cfg, recs, store0, rerun, args, files, stored>>
    /\ UNCHANGED fetchVars
    /\ UNCHANGED loadVars
    /\ UNCHANGED serverVars

NextCfgTwice ==
    \/ call_resolve_polygon_cfg
    \/ call_resolve_polygon_cfg_again

SpecCfgTwice == InitCfgTwice /\ [][NextCfgTwice]_vars

-----------------------------------------------------------------------------
(* _to_row alone, for records with every kind of timestamp and field value *)

\* raw timestamps: none, null, seconds, the two sides of the threshold, text,
\* negative, and milliseconds beyond the year 9999
RowTimestamps ==
    {Absent, None, IntV(1), IntV(-1), StrV(<<"1", "7">>), StrV(<<"a", "b", "c">>),
     BigV(Num(FALSE, <<999, 999, 999, 9>>)), BigV(SecondsThreshold),
     BigV(Num(FALSE, <<1, 0, 0, 10>>)), BigV(Num(FALSE, <<0, 0, 0, 0, 0, 1>>))}

\* provider records under the short names: each field absent, null, a number,
\* a genuine zero, or text that is no number
RowRecs ==
    {[kind |-> "dict", f |-> Dict(r)] : r \in
        [t : RowTimestamps,
         o : {Absent, None, IntV(5), StrV(<<"x">>)},
         h : {IntV(9)},
         l : {IntV(4)},
         c : {IntV(10), StrV(<<"1", "0">>)},
         v : {Absent, None, IntV(0), IntV(7), StrV(<<"a", "b", "c">>), BoolV(TRUE)},
         vw : {Absent, IntV(0), IntV(6), StrV(<<"a", "b", "c">>)},
         n : {Absent, IntV(0), IntV(3), StrV(<<"x">>)}]}

\* records, property bags and objects, that expose one alias of the timestamp
\* and of the close, both, or neither
AliasRecs ==
    {[kind |-> kd, f |-> Dict(r)] : kd \in {"dict", "slots"}, r \in
        [t : {Absent, IntV(1)},
         timestamp : {Absent, IntV(2)},
         o : {IntV(5)},
         h : {IntV(9)},
         l : {IntV(4)},
         c : {Absent, None, IntV(10)},
         close : {Absent, IntV(20)},
         v : {Absent, IntV(7)},
         volume : {Absent, IntV(8)}]}

InitRow ==
    /\ pc = "to_row"
    /\ cfg = [polygon |-> ValidPolygon, mysql |-> ValidMysql]
    /\ args = Args(None, None, None, BatchSizeDefault) /\ env = EmptyDict
    /\ poly = ResolvedPolygon /\ mysql_cfg = ValidMysql /\ err = NoErr
    /\ prov = <<>> /\ failPlan = 0 /\ retries = DefaultRetries
    /\ backoff_base = DefaultBackoff
    /\ attempt = 0 /\ items = <<>> /\ calls = 0 /\ sleeps = <<>>
    /\ \E r \in RowRecs \cup AliasRecs : recs = <<r>>
    /\ conn = "none" /\ txn = {} /\ rows = <<>> /\ pos = 0 /\ total = 0
    /\ issued = <<>> /\ execs = 0 /\ walkErr = "" /\ out = <<>>
    /\ schema = [db |-> TRUE, table |-> FALSE]
    /\ store = {} /\ store0 = {} /\ ledger = EmptyDict /\ rerun = FALSE
    /\ NoSide

\* _to_row(recs[0], poly["stocksTicker"], poly["multiplier"], poly["timespan"])
call_to_row ==
    /\ pc = "to_row"
    /\ \E r \in {_to_row(recs[1], poly["stocksTicker"], poly["multiplier"],
                         poly["timespan"])} :
           /\ rows' = IF r.ok THEN <<r.val>> ELSE <<>>
           /\ err' = r.err
           /\ pc' = IF r.ok THEN "row" ELSE "raised"
    /\ UNCHANGED <<poly, mysql_cfg, recs, conn, txn, pos, total, issued, execs, out, store0,
                   rerun>>
    /\ UNCHANGED inputVars
    /\ UNCHANGED sideVars
    /\ UNCHANGED fetchVars
    /\ UNCHANGED serverVars

NextRow == call_to_row

SpecRow == InitRow /\ [][NextRow]_vars

-----------------------------------------------------------------------------
(* store_result: backtest results appended to JSON-lines files *)

\* a JSON token: punctuation, a string (a key by its name, a value by its
\* text), a number, null
JTok(tok, name, text, n) == [tok |-> tok, name |-> name, s |-> text, n |-> n]
Punct(c) == JTok(c, "", <<>>, Zero)
Newline == Punct("\n")

\* the token json.dump writes for a value
json_value(v) ==
    CASE v.k = "none" -> JTok("null", "", <<>>, Zero)
      [] v.k = "str" -> JTok("string", "", v.s, Zero)
      [] OTHER -> JTok("number", "", <<>>, v.n)

\* the value json.loads reads from a token
json_parsed(t) ==
    CASE t.tok = "null" -> None
      [] t.tok = "string" -> StrV(t.s)
      [] OTHER -> BigV(t.n)

\* the fields of BacktestResult the records carry, in declaration order
ResultFields == <<"run_id", "run_started", "iterations">>

\* dataclasses.asdict(result): <<key, value>> pairs in field order
asdict(result) == [i \in 1..Len(ResultFields) |-> <<ResultFields[i], result[ResultFields[i]]>>]

\* record[key] = value on an insertion-ordered dict
SetPair(pairs, key, value) ==
    IF \E i \in 1..Len(pairs) : pairs[i][1] = key
    THEN [i \in 1..Len(pairs) |-> IF pairs[i][1] = key THEN <<key, value>> ELSE pairs[i]]
    ELSE Append(pairs, <<key, value>>)

RECURSIVE json_members(_)
json_members(pairs) ==
    IF pairs = <<>> THEN <<>>
    ELSE <<JTok("string", Head(pairs)[1], <<>>, Zero), Punct(":"), json_value(Head(pairs)[2])>>
         \o (IF Len(pairs) = 1 THEN <<>> ELSE <<Punct(",")>> \o json_members(Tail(pairs)))

\* json.dump(record, f): the text of one object
json_dump(pairs) == <<Punct("{")>> \o json_members(pairs) \o <<Punct("}")>>

\* json.loads(line): the dict of one object's text; a member is four tokens
\* from the second on, a repeated key keeps its last value
json_loads(toks) ==
    LET n == (Len(toks) - 1) \div 4
        last(k) == CHOOSE i \in 1..n :
                      /\ toks[4 * i - 2].name = k
                      /\ \A j \in (i + 1)..n : toks[4 * j - 2].name # k
    IN  [k \in {toks[4 * i - 2].name : i \in 1..n} |-> json_parsed(toks[4 * last(k)])]

\* path.open("w"): an existing file is emptied
OpenForAppend_Truncate(file) == <<>>

\* line 34, path.open("a"): the text already in the file, none for a new one
OpenForAppend(file) == IF file.exists THEN file.text ELSE <<>>

\* lines 29-36 on one path: the directory made, the file opened for append,
\* the record and a newline written
Written(file, result, strategy_id) ==
    [dir |-> TRUE, exists |-> TRUE,
     text |-> OpenForAppend(file)
              \o json_dump(SetPair(asdict(result), "strategy_id", strategy_id))
              \o <<Newline>>]

R1 == <<"R", "1">>
R2 == <<"R", "2">>
STRAT1 == <<"S", "T", "R", "A", "T", "-", "1">>
STRAT2 == <<"S", "T", "R", "A", "T", "-", "2">>

Results ==
    {[run_id |-> StrV(r), run_started |-> None, iterations |-> IntV(10)] : r \in {R1, R2}}
StrategyIds == {StrV(STRAT1), StrV(STRAT2)}

MaxStores == 3

InitStore ==
    /\ pc = "store"
    /\ cfg = EmptyDict /\ args = Args(None, None, None, BatchSizeDefault) /\ env = EmptyDict
    /\ poly = NoCfg /\ mysql_cfg = NoCfg /\ err = NoErr
    /\ prov = <<>> /\ failPlan = 0 /\ retries = DefaultRetries
    /\ backoff_base = DefaultBackoff
    /\ attempt = 0 /\ items = <<>> /\ calls = 0 /\ sleeps = <<>> /\ recs = <<>>
    /\ conn = "none" /\ txn = {} /\ rows = <<>> /\ pos = 0 /\ total = 0
    /\ issued = <<>> /\ execs = 0 /\ walkErr = "" /\ out = <<>>
    /\ schema = [db |-> TRUE, table |-> FALSE]
    /\ store = {} /\ store0 = {} /\ ledger = EmptyDict /\ rerun = FALSE
    /\ prev = NoCfg
    /\ files \in [Paths -> {NoFile, [dir |-> TRUE, exists |-> FALSE, text |-> <<>>]}]
    /\ stored = <<>>

\* store_result(result, strategy_id, output_path)
store_result ==
    /\ pc = "store"
    /\ Len(stored) < MaxStores
    /\ \E result \in Results, strategy_id \in StrategyIds, output_path \in Paths :
          /\ files' = [files EXCEPT ![output_path] = Written(@, result, strategy_id)]
          /\ stored' = Append(stored, [result |-> result, strategy_id |-> strategy_id,
                                       path |-> output_path])
    /\ UNCHANGED <<pc, poly, mysql_cfg, err, recs, store0, rerun, prev>>
    /\ UNCHANGED inputVars
    /\ UNCHANGED fetchVars
    /\ UNCHANGED loadVars
    /\ UNCHANGED serverVars

NextStore == store_result

SpecStore == InitStore /\ [][NextStore]_vars

-----------------------------------------------------------------------------
(* Properties *)

RECURSIVE Flatten(_)
Flatten(bs) == IF bs = <<>> THEN <<>> ELSE Head(bs) \o Flatten(Tail(bs))

RECURSIVE ApplyBatches(_, _)
ApplyBatches(t, bs) ==
    IF bs = <<>> THEN t ELSE ApplyBatches(ExecuteMany(t, Head(bs)), Tail(bs))

CeilDiv(n, b) == (n + b - 1) \div b

Keys(t) == {PrimaryKey(r) : r \in t}

\* C1: after any sequence of runs the committed table holds exactly one row
\* per natural key ever upserted, and that row is the row of the latest
\* committed upsert of its key (SpecLoad).
C1_OneRowPerKeyLatestWins ==
    /\ \A r1 \in store : \A r2 \in store : PrimaryKey(r1) = PrimaryKey(r2) => r1 = r2
    /\ Keys(store) = DOMAIN ledger
    /\ \A r \in store : r = ledger[PrimaryKey(r)]

\* two runs, three rows, one key shared: two rows are left and the shared
\* key's close is not the one the first run wrote
C1_SecondRunOverwrote ==
    /\ pc = "done"
    /\ Cardinality(store0) = 1
    /\ Len(rows) = 2
    /\ Cardinality(store) = 2
    /\ \E r0 \in store0 : \E r \in store :
          PrimaryKey(r) = PrimaryKey(r0) /\ r.close # r0.close /\ r.close = rows[1].close

\* C2: a run that repeats a completed run's row sequence leaves the table as
\* the completed run left it (SpecLoad).
C2_RerunIsNoOp == (pc = "done" /\ rerun) => store = store0

\* a rerun completed, of rows that write one key twice and another once
C2_RerunCompleted ==
    /\ pc = "done" /\ rerun
    /\ Len(rows) = 3 /\ Cardinality(store) = 2
    /\ Len(issued) >= 2

\* C3: when the upsert of batch k fails, the run ends in an error with the
\* table equal to the pre-run table with batches 1..k-1 applied, batch k
\* executed once and nothing after it (SpecLoad).
C3_FailedBatchRolledBack ==
    (pc \in {"unwind", "exit_err"} /\ err.what = "upsert") =>
        /\ err # NoErr
        /\ issued = SubSeq(chunked(rows, args.batch_size), 1, Len(issued))
        /\ Len(issued) < Len(chunked(rows, args.batch_size))
        /\ store = ApplyBatches(store0, issued)
        /\ execs = Len(issued) + 1
        /\ total = Len(Flatten(issued))

\* the second batch failed after the statement had written a row
C3_SecondBatchFailedMidway ==
    /\ pc = "unwind" /\ err.what = "upsert"
    /\ Len(issued) = 1
    /\ txn # store
    /\ store # store0

\* C4: for N rows and batch size B >= 1 a completed load has executed
\* ceil(N/B) upserts, on contiguous slices in order, all but the last of B
\* rows, whose lengths sum to N (SpecLoad).
C4_Chunking ==
    (pc = "done" /\ args.batch_size >= 1) =>
        /\ Len(issued) = CeilDiv(Len(rows), args.batch_size)
        /\ execs = Len(issued)
        /\ Flatten(issued) = rows
        /\ \A i \in 1..(Len(issued) - 1) : Len(issued[i]) = args.batch_size
        /\ \A i \in 1..Len(issued) :
              Len(issued[i]) >= 1 /\ Len(issued[i]) <= args.batch_size
        /\ total = Len(rows)

\* three rows were loaded two at a time
C4_ThreeRowsByTwo ==
    /\ pc = "done" /\ args.batch_size = 2
    /\ Len(rows) = 3 /\ Len(issued) = 2

\* C5: the list fetch_aggregates returns is the record sequence of one
\* complete walk, nothing from an abandoned walk added (SpecFetch).
C5_OneWalkReturned == pc = "fetched" => recs = AsItems(prov)

\* the last n elements of xs
Suffix(xs, n) == SubSeq(xs, Len(xs) - n + 1, Len(xs))

\* C6: with f failing walks before a good one and budget R, the fetch
\* returns, with every provider record, when f <= R, and raises the
\* provider's error when f > R (SpecFetch).
C6_RetryBudget ==
    /\ failPlan <= retries => pc # "exit_err"
    /\ failPlan > retries => pc # "fetched"
    /\ pc = "fetched" =>
          /\ Len(recs) >= Len(prov)
          /\ Suffix(recs, Len(prov)) = AsItems(prov)
    /\ pc = "exit_err" => err.type \in ProviderErrors /\ err.what = "list_aggs"

\* three failures within a budget of five
C6_ThreeFailuresBudgetFive ==
    /\ pc = "fetched" /\ failPlan = 3 /\ retries = 5
    /\ calls = 4 /\ prov # <<>>

C7_Bounded ==
    /\ calls <= retries + 1
    /\ Len(sleeps) <= retries
    /\ pc = "exit_err" =>
          /\ attempt = retries + 1
          /\ calls = retries + 1
          /\ err = Exc(walkErr, "list_aggs", <<>>)
          /\ recs = <<>>

C7_Ended == pc \in {"fetched", "exit_err"}

\* C7: fetch_aggregates ends; it calls the provider at most R+1 times and
\* sleeps at most R times, and once the budget is exceeded it raises the last
\* provider error and returns nothing (FairSpecFetch).
C7_TerminatesWithinBudget == []C7_Bounded /\ <>C7_Ended

\* the default budget was spent: six calls, five sleeps, the error raised
C7_BudgetSpent ==
    /\ pc = "exit_err" /\ retries = DefaultRetries
    /\ calls = DefaultRetries + 1 /\ Len(sleeps) = DefaultRetries

\* C8: the k-th delay is backoff_base * 2^(k-1): the first is the base, each
\* later one twice the one before, strictly increasing (SpecFetch).
C8_Backoff ==
    /\ Len(sleeps) = (IF attempt <= retries THEN attempt ELSE retries)
    /\ Len(sleeps) >= 1 => sleeps[1] = backoff_base
    /\ \A k \in 1..(Len(sleeps) - 1) :
          sleeps[k + 1] = 2 * sleeps[k] /\ sleeps[k + 1] > sleeps[k]

\* five delays from the default base: 0.75 s up to 12 s
C8_FiveDelays ==
    /\ Len(sleeps) = 5 /\ backoff_base = DefaultBackoff
    /\ sleeps[5] = 1200

\* the required fields whose value, after the override, the environment and
\* the defaults, is absent or empty
C9_Missing ==
    SelectSeq(PolygonRequired,
              LAMBDA k : ~Truthy(Get(PolygonMerged(cfg["polygon"], args.ticker, env), k, None)))

\* C9: when required fields are missing or empty, resolve_polygon_cfg raises
\* one error that lists every one of them, and it returns only when none is
\* missing (SpecCfg).
C9_AllMissingReported ==
    (pc \in {"resolved", "raised"} /\ "polygon" \in DOMAIN cfg) =>
        /\ C9_Missing # <<>> =>
              /\ pc = "raised"
              /\ err = Exc("ValueError", "Missing polygon config fields", C9_Missing)
        /\ pc = "resolved" => C9_Missing = <<>>

C10_ConfigBad ==
    \/ "polygon" \notin DOMAIN cfg
    \/ "mysql" \notin DOMAIN cfg
    \/ \E i \in 1..Len(PolygonRequired) :
          ~Truthy(Get(PolygonMerged(cfg["polygon"], args.ticker, env),
                      PolygonRequired[i], None))
    \/ \E i \in 1..Len(MysqlRequired) : ~Truthy(Get(cfg["mysql"], MysqlRequired[i], None))

\* C10: a run whose configuration lacks a section or a required field ends in
\* the configuration error with no provider call, no connection, no upsert
\* and the table untouched (Spec).
C10_ConfigErrorBeforeIO ==
    (pc \notin {"idle", "start"} /\ C10_ConfigBad) =>
        /\ pc = "exit_err"
        /\ err.type = "ValueError"
        /\ calls = 0
        /\ conn = "none"
        /\ execs = 0
        /\ store = store0

\* a run stopped on a store field missing from an otherwise valid document
C10_StoreFieldMissing ==
    /\ pc = "exit_err"
    /\ err = Exc("ValueError", "Missing MySQL config fields", <<"host">>)
    /\ calls = 0

\* the section main uses for the fetch: the merge of lines 41-51 with the date
\* overrides of the command line applied
C11_Effective == DateOverrides(PolygonMerged(cfg["polygon"], args.ticker, env), args)

\* C11: required-field validation sees the configuration merged with the
\* ticker and date overrides: when every required field is present after the
\* overrides, the run resolves a FetchSpec that carries the override values
\* (SpecMainCfg).
C11_OverridesCountAsPresent ==
    (/\ pc \in {"fetch", "exit_err"}
     /\ \A i \in 1..Len(PolygonRequired) :
           Truthy(Get(C11_Effective, PolygonRequired[i], None)))
    => /\ pc = "fetch"
       /\ \A k \in {"stocksTicker", "start_date", "end_date"} : poly[k] = C11_Effective[k]

\* the timespans of the data model
C12_Timespans ==
    {StrV(<<"s", "e", "c", "o", "n", "d">>), StrV(MINUTE), StrV(<<"h", "o", "u", "r">>),
     StrV(<<"d", "a", "y">>), StrV(<<"w", "e", "e", "k">>),
     StrV(<<"m", "o", "n", "t", "h">>)}

\* C12: every FetchSpec resolve_polygon_cfg returns has an integer
\* multiplier >= 1, an integer limit >= 1 and a lower-case timespan of the
\* enumerated set (SpecCfg).
C12_FetchSpecInvariant ==
    pc = "resolved" =>
        /\ poly["multiplier"].k = "int" /\ NumLess(Zero, poly["multiplier"].n)
        /\ poly["limit"].k = "int" /\ NumLess(Zero, poly["limit"].n)
        /\ poly["timespan"] \in C12_Timespans

\* the document's polygon section without one of its keys
C13_Without(key) ==
    [polygon |-> [k \in DOMAIN cfg["polygon"] \ {key} |-> cfg["polygon"][k]]]

\* C13: the resolved sort is asc or desc: asc and desc are kept, any other
\* value becomes asc, and no sort value makes the resolution raise (SpecCfg).
C13_SortFallsBackToAsc ==
    (pc \in {"resolved", "raised"} /\ "polygon" \in DOMAIN cfg
                                   /\ "sort" \in DOMAIN cfg["polygon"]) =>
        /\ (pc = "resolved") = resolve_polygon_cfg(C13_Without("sort"), args.ticker, env).ok
        /\ pc = "resolved" =>
              /\ poly["sort"] \in {StrV(ASC), StrV(DESC)}
              /\ cfg["polygon"]["sort"] \in {StrV(ASC), StrV(DESC)}
                    => poly["sort"] = cfg["polygon"]["sort"]
              /\ cfg["polygon"]["sort"] \notin {StrV(ASC), StrV(DESC)}
                    => poly["sort"] = StrV(ASC)

\* a document whose sort is "down" resolved to asc
C13_UnknownSortResolved ==
    /\ pc = "resolved"
    /\ "sort" \in DOMAIN cfg["polygon"]
    /\ cfg["polygon"]["sort"] = StrV(<<"d", "o", "w", "n">>)
    /\ poly["sort"] = StrV(ASC)

\* C14: adjusted never makes the resolution fail; a real boolean is kept, a
\* value whose trimmed, lower-cased text is 1, true, t, yes or y resolves to
\* true and any other value to false; a null value is no value and takes the
\* default (SpecCfg).
C14_AdjustedTolerant ==
    (pc \in {"resolved", "raised"} /\ "polygon" \in DOMAIN cfg
                                   /\ "adjusted" \in DOMAIN cfg["polygon"]) =>
        /\ (pc = "resolved") = resolve_polygon_cfg(C13_Without("adjusted"), args.ticker, env).ok
        /\ pc = "resolved" =>
              /\ poly["adjusted"].k = "bool"
              /\ cfg["polygon"]["adjusted"].k = "bool"
                    => poly["adjusted"] = cfg["polygon"]["adjusted"]
              /\ cfg["polygon"]["adjusted"].k = "none" => poly["adjusted"] = BoolV(TRUE)
              /\ cfg["polygon"]["adjusted"].k \in {"str", "int"}
                    => poly["adjusted"] =
                          BoolV(LowerStr(Strip(PyStr(cfg["polygon"]["adjusted"]))) \in
                                {<<"1">>, <<"t", "r", "u", "e">>, <<"t">>,
                                 <<"y", "e", "s">>, <<"y">>})

\* " YES " resolved to true
C14_PaddedYesIsTrue ==
    /\ pc = "resolved"
    /\ "adjusted" \in DOMAIN cfg["polygon"]
    /\ cfg["polygon"]["adjusted"] = StrV(<<" ", "Y", "E", "S", " ">>)
    /\ poly["adjusted"] = BoolV(TRUE)

\* C15: an omitted multiplier, timespan, adjusted, sort or limit resolves to
\* 1, minute, true, asc, 50000; one the document holds resolves to the
\* document's value in its normal form, never to the default in its place
\* (SpecCfg).
C15_Defaults ==
    pc = "resolved" =>
        /\ "multiplier" \notin DOMAIN cfg["polygon"] => poly["multiplier"] = IntV(1)
        /\ "timespan" \notin DOMAIN cfg["polygon"] => poly["timespan"] = StrV(MINUTE)
        /\ "adjusted" \notin DOMAIN cfg["polygon"] => poly["adjusted"] = BoolV(TRUE)
        /\ "sort" \notin DOMAIN cfg["polygon"] => poly["sort"] = StrV(ASC)
        /\ "limit" \notin DOMAIN cfg["polygon"] => poly["limit"] = IntV(50000)
        /\ "multiplier" \in DOMAIN cfg["polygon"]
              => poly["multiplier"] = BigV(PyInt(cfg["polygon"]["multiplier"]).n)
        /\ "timespan" \in DOMAIN cfg["polygon"]
              => poly["timespan"] = cfg["polygon"]["timespan"]
        /\ "limit" \in DOMAIN cfg["polygon"]
              => poly["limit"] = BigV(PyInt(cfg["polygon"]["limit"]).n)
        /\ ("sort" \in DOMAIN cfg["polygon"]
               /\ cfg["polygon"]["sort"] \in {StrV(ASC), StrV(DESC)})
              => poly["sort"] = cfg["polygon"]["sort"]
        /\ ("adjusted" \in DOMAIN cfg["polygon"]
               /\ cfg["polygon"]["adjusted"] \in {BoolV(FALSE), IntV(0), StrV(<<"n", "o">>)})
              => poly["adjusted"] = BoolV(FALSE)

\* multiplier "2" and limit "10" kept, the three omitted fields defaulted
C15_SomeOmittedSomeKept ==
    /\ pc = "resolved"
    /\ DOMAIN cfg["polygon"] \cap {"multiplier", "timespan", "adjusted", "sort", "limit"}
          = {"multiplier", "limit"}
    /\ cfg["polygon"]["multiplier"] = StrV(<<"2">>)
    /\ poly["multiplier"] = IntV(2) /\ poly["limit"] = IntV(10)
    /\ poly["timespan"] = StrV(MINUTE) /\ poly["adjusted"] = BoolV(TRUE)
    /\ poly["sort"] = StrV(ASC)

\* C16: two invocations of resolve_polygon_cfg with the identical document and
\* ticker override yield the identical FetchSpec or error, whatever else
\* differs between them (SpecCfgTwice).
C16_SameArgumentsSameOutcome ==
    pc \in {"resolved_again", "raised_again"} => Outcome = prev

\* C16, amended: resolve_polygon_cfg leaves its document as it was, and two
\* invocations with the identical document, ticker override and STOCK_TICKER
\* environment value yield the identical FetchSpec or error (SpecCfgTwice).
C16_SameInputsSameOutcome ==
    [][/\ cfg' = cfg
       /\ (pc' \in {"resolved_again", "raised_again"} /\ env' = env) => Outcome' = prev']_vars

\* the second invocation returned what the first did, the ticker taken from
\* the environment over the command line's
C16_ResolvedTwiceAlike ==
    /\ pc = "resolved_again"
    /\ Outcome = prev
    /\ args.ticker = StrV(ABC)
    /\ poly["stocksTicker"] = StrV(ENVT)
    /\ poly["multiplier"] = IntV(2)

\* the record's raw timestamp as an integer
C17_Raw == PyInt(_get_attr(recs[1], <<"t", "timestamp">>, None)).n

\* C17: a row's ts_ms is the raw timestamp times 1000 when the raw timestamp
\* is below 10,000,000,000 and the raw timestamp itself otherwise; 9999999999
\* gives 9999999999000 and 10000000000 stays 10000000000 (SpecRow).
C17_TimestampNormalized ==
    pc = "row" =>
        /\ NumLess(C17_Raw, Num(FALSE, <<0, 0, 0, 10>>)) => rows[1].ts_ms = Mul1000(C17_Raw)
        /\ ~NumLess(C17_Raw, Num(FALSE, <<0, 0, 0, 10>>)) => rows[1].ts_ms = C17_Raw
        /\ C17_Raw = Num(FALSE, <<999, 999, 999, 9>>)
              => rows[1].ts_ms = Num(FALSE, <<0, 999, 999, 999, 9>>)
        /\ C17_Raw = Num(FALSE, <<0, 0, 0, 10>>)
              => rows[1].ts_ms = Num(FALSE, <<0, 0, 0, 10>>)

\* the row of a record stamped 9999999999
C17_LastSecondsValue ==
    /\ pc = "row"
    /\ recs[1].f["t"] = BigV(Num(FALSE, <<999, 999, 999, 9>>))
    /\ rows[1].ts_ms = Num(FALSE, <<0, 999, 999, 999, 9>>)

\* C18: _to_row returns a row whose timestamp, open, high, low and close are
\* all present numbers, or it fails; a record with a missing or unparsable
\* price yields no row (SpecRow).
C18_MandatoryPresentOrError ==
    pc = "row" =>
        /\ rows[1].ts_ms \in {C17_Raw, Mul1000(C17_Raw)}
        /\ \A c \in {"open", "high", "low", "close"} : rows[1][c].k = "float"

\* the timestamp of the record converts and names a representable instant
C19_TimestampFine ==
    /\ PyInt(_get_attr(recs[1], <<"t", "timestamp">>, None)).ok
    /\ DatetimeInRange(NormalizeTs(C17_Raw))

\* the source omits the field, or holds null or text that is no number
C19_Unusable(names) ==
    \/ _get_attr(recs[1], names, None).k = "none"
    \/ /\ _get_attr(recs[1], names, None).k = "str"
       /\ ~ParseInt(_get_attr(recs[1], names, None).s).ok

\* C19: whenever the source omits vwap, volume or transactions, or holds a
\* value that is no number, _to_row does not fail and the field of the row is
\* null; a number, zero included, is kept (SpecRow).
C19_OptionalAbsentNeverFails ==
    (pc \in {"row", "raised"} /\ C19_TimestampFine) =>
        /\ pc = "row"
        /\ C19_Unusable(<<"v", "volume">>) => rows[1].volume = None
        /\ C19_Unusable(<<"vw", "vwap">>) => rows[1].vwap = None
        /\ C19_Unusable(<<"n", "transactions">>) => rows[1].transactions = None
        /\ _get_attr(recs[1], <<"v", "volume">>, None).k = "int"
              => rows[1].volume = _get_attr(recs[1], <<"v", "volume">>, None)
        /\ _get_attr(recs[1], <<"n", "transactions">>, None).k = "int"
              => rows[1].transactions = _get_attr(recs[1], <<"n", "transactions">>, None)
        /\ _get_attr(recs[1], <<"vw", "vwap">>, None).k = "int"
              => rows[1].vwap = FloatV(_get_attr(recs[1], <<"vw", "vwap">>, None).n)

\* the lines of a text: the token runs that end in a newline
RECURSIVE C20_Lines(_, _)
C20_Lines(text, line) ==
    IF text = <<>> THEN <<>>
    ELSE IF Head(text) = Newline THEN <<line>> \o C20_Lines(Tail(text), <<>>)
    ELSE C20_Lines(Tail(text), Append(line, Head(text)))

\* what follows the last newline of a text
RECURSIVE C20_Rest(_, _)
C20_Rest(text, line) ==
    IF text = <<>> THEN line
    ELSE IF Head(text) = Newline THEN C20_Rest(Tail(text), <<>>)
    ELSE C20_Rest(Tail(text), Append(line, Head(text)))

\* the calls made with a path, in call order
C20_CallsOn(p) == SelectSeq(stored, LAMBDA c : c.path = p)

\* the record a call is to store: the result's fields and the strategy_id
C20_Record(c) ==
    [k \in DOMAIN c.result \cup {"strategy_id"} |->
        IF k = "strategy_id" THEN c.strategy_id ELSE c.result[k]]

C20_FileHoldsCalls ==
    \A p \in Paths :
        /\ files[p].exists = (C20_CallsOn(p) # <<>>)
        /\ C20_Rest(files[p].text, <<>>) = <<>>
        /\ Len(C20_Lines(files[p].text, <<>>)) = Len(C20_CallsOn(p))
        /\ \A i \in 1..Len(C20_CallsOn(p)) :
              json_loads(C20_Lines(files[p].text, <<>>)[i]) = C20_Record(C20_CallsOn(p)[i])

C20_Step ==
    \E p \in Paths :
        /\ \A q \in Paths \ {p} : files'[q] = files[q]
        /\ files'[p].exists
        /\ Len(files'[p].text) > Len(files[p].text)
        /\ SubSeq(files'[p].text, 1, Len(files[p].text)) = files[p].text
        /\ Len(C20_Lines(files'[p].text, <<>>)) = Len(C20_Lines(files[p].text, <<>>)) + 1

\* C20: each store_result call appends exactly one JSON line, the result's
\* fields plus the strategy_id, to its file, creating the file when absent
\* and leaving the text already there and every other file unchanged; after
\* n calls a file holds the n records of its calls in call order (SpecStore).
C20_AppendsOneLine == []C20_FileHoldsCalls /\ [][C20_Step]_vars

\* three calls: the first and third on one file, which holds their two
\* records, the second on the other
C20_TwoLinesAndOne ==
    /\ Len(stored) = 3
    /\ stored[1].path = "out/b.jsonl" /\ stored[2].path = "a.jsonl"
    /\ stored[3].path = "out/b.jsonl"
    /\ stored[1].strategy_id # stored[3].strategy_id
    /\ Len(C20_Lines(files["out/b.jsonl"].text, <<>>)) = 2
    /\ json_loads(C20_Lines(files["out/b.jsonl"].text, <<>>)[2])["strategy_id"]
          = stored[3].strategy_id

C21_BeforeFetchReturned == pc \in {"start", "fetch"}

\* C21: in every run the fetch completes, then the schema is provisioned and
\* committed, then the first upsert runs: no connection, schema statement or
\* upsert before fetch_aggregates has returned, a run that ends in a fetch
\* error leaves schema and rows as they were, and no upsert statement runs
\* before the schema commit (Spec).
C21_StagesInOrder ==
    /\ [](C21_BeforeFetchReturned => (conn = "none" /\ execs = 0 /\ store = store0))
    /\ []((pc = "exit_err" /\ err.what = "list_aggs") =>
              (conn = "none" /\ execs = 0 /\ store = store0 /\ txn = {}))
    /\ [][/\ C21_BeforeFetchReturned =>
                (schema' = schema /\ store' = store /\ txn' = txn /\ conn' = "none")
          /\ schema' # schema => (pc = "prepare" /\ conn = "open" /\ execs = 0)
          /\ execs' > execs => (schema.table /\ conn = "open" /\ pc = "load")
          /\ (store' # store \/ (txn' # txn /\ pc = "load")) => schema.table]_vars

\* a run whose fetch was retried has provisioned the table and committed its
\* first batch
C21_FirstBatchAfterSchema ==
    /\ pc = "load" /\ execs = 1 /\ calls >= 2
    /\ schema.table /\ store # store0

\* the transformation of some fetched record fails
C22_SomeRecordFails ==
    \E i \in 1..Len(recs) :
        ~_to_row(recs[i], poly["stocksTicker"], poly["multiplier"], poly["timespan"]).ok

\* C22: every fetched record is transformed before the first upsert runs, and
\* when the transformation of any record fails, wherever it is in the
\* sequence, the run aborts with no upsert executed and the table as it was
\* (SpecLoad).
C22_TransformBeforeLoad ==
    /\ execs > 0 =>
          /\ Len(rows) = Len(recs)
          /\ ~C22_SomeRecordFails
    /\ (pc \in {"load", "unwind", "done", "exit_err"} /\ conn # "none" /\ C22_SomeRecordFails
            /\ err.what # "mysql_prepare") =>
          /\ pc \in {"unwind", "exit_err"}
          /\ err.what = "int(timestamp)"
          /\ rows = <<>> /\ execs = 0 /\ issued = <<>> /\ total = 0
          /\ store = store0
          /\ txn \in {store, {}}

\* a run over a table that holds rows, aborted on the last of three records
C22_LastRecordBad ==
    /\ pc = "unwind" /\ err.what = "int(timestamp)"
    /\ Len(recs) = 3
    /\ "t" \notin DOMAIN recs[3].f /\ "timestamp" \notin DOMAIN recs[3].f
    /\ "t" \in DOMAIN recs[1].f
    /\ store # {} /\ store = store0

\* C23: only transient provider failures are retried: a walk that fails with
\* a non-transient error ends the fetch at once, with no backoff after it and
\* no further provider invocation (SpecFetch).
C23_OnlyTransientRetried ==
    walkErr = "permanent" =>
        /\ pc = "exit_err"
        /\ err = Exc("permanent", "list_aggs", <<>>)
        /\ Len(sleeps) = calls - 1

\* the row counts of the first j batches, summed
RECURSIVE C24_Sum(_, _)
C24_Sum(bs, j) == IF j = 0 THEN 0 ELSE C24_Sum(bs, j - 1) + Len(bs[j])

C24_Consistent ==
    /\ total = C24_Sum(issued, Len(issued))
    /\ total <= Len(rows)
    /\ total >= 0
    /\ Len(out) = Len(issued)
    /\ \A j \in 1..Len(out) : out[j] = C24_Sum(issued, j)
    /\ pc \in {"load", "unwind", "done"} => store = ApplyBatches(store0, issued)

\* C24: the progress counter starts at 0, grows only when a batch has been
\* committed and then by that batch's row count, never shrinks within a run,
\* never exceeds N, and after the commit of batch j equals the rows of
\* batches 1..j, which is what has been committed and reported (SpecLoad).
C24_ProgressMatchesCommits ==
    /\ []C24_Consistent
    /\ [][/\ pc' = "load" /\ pc # "load" => total' = 0
          /\ total' # total =>
                \/ total' = 0 /\ pc' \in {"idle", "fetched"}
                \/ /\ pc = "load" /\ pc' = "load"
                   /\ issued' = Append(issued, CurrentBatch)
                   /\ store' = ExecuteMany(txn, CurrentBatch)
                   /\ total' = total + Len(CurrentBatch)
                   /\ total' > total
          /\ issued' # issued /\ issued' # <<>> => total' = total + Len(issued'[Len(issued')])]_vars

\* two batches committed of three rows: 2 then 3 reported
C24_TwoThenThree ==
    /\ pc = "load" /\ Len(rows) = 3 /\ args.batch_size = 2
    /\ total = 3 /\ out = <<2, 3>>

\* C25: for dict records and attribute objects alike, a field present under
\* its short alias takes the short alias's value, a field present only under
\* its long alias takes that one, and a field under neither is the default:
\* a null column, or for the timestamp a failure to convert it (SpecRow).
C25_ShortAliasFirst ==
    pc \in {"row", "raised"} =>
        /\ ("t" \notin DOMAIN recs[1].f /\ "timestamp" \notin DOMAIN recs[1].f)
              => (pc = "raised" /\ err = Exc("TypeError", "int(timestamp)", <<>>))
        /\ pc = "row" =>
              /\ "t" \in DOMAIN recs[1].f
                    => rows[1].ts_ms = NormalizeTs(PyInt(recs[1].f["t"]).n)
              /\ ("t" \notin DOMAIN recs[1].f /\ "timestamp" \in DOMAIN recs[1].f)
                    => rows[1].ts_ms = NormalizeTs(PyInt(recs[1].f["timestamp"]).n)
              /\ "c" \in DOMAIN recs[1].f => rows[1].close = to_num(recs[1].f["c"])
              /\ ("c" \notin DOMAIN recs[1].f /\ "close" \in DOMAIN recs[1].f)
                    => rows[1].close = to_num(recs[1].f["close"])
              /\ ("c" \notin DOMAIN recs[1].f /\ "close" \notin DOMAIN recs[1].f)
                    => rows[1].close = None
              /\ "v" \in DOMAIN recs[1].f => rows[1].volume = OptInt(recs[1].f["v"]).val
              /\ ("v" \notin DOMAIN recs[1].f /\ "volume" \in DOMAIN recs[1].f)
                    => rows[1].volume = OptInt(recs[1].f["volume"]).val
              /\ ("v" \notin DOMAIN recs[1].f /\ "volume" \notin DOMAIN recs[1].f)
                    => rows[1].volume = None

\* an object exposing both aliases of the timestamp, the close and the
\* volume: the row carries the short aliases' 1 (1000 ms), 10 and 7
C25_BothAliasesOnObject ==
    /\ pc = "row" /\ recs[1].kind = "slots"
    /\ {"t", "timestamp", "c", "close", "v", "volume"} \subseteq DOMAIN recs[1].f
    /\ recs[1].f["timestamp"] = IntV(2) /\ recs[1].f["close"] = IntV(20)
    /\ rows[1].ts_ms = Z(1000)
    /\ rows[1].close = FloatV(Z(10))
    /\ rows[1].volume = IntV(7)

\* the ticker by the precedence: environment when set, else a non-empty
\* command-line override, else the document's stocksTicker
C26_Ticker ==
    IF "STOCK_TICKER" \in DOMAIN env THEN env["STOCK_TICKER"]
    ELSE IF args.ticker.k = "str" /\ args.ticker.s # <<>> THEN args.ticker
    ELSE IF "stocksTicker" \in DOMAIN cfg["polygon"] THEN cfg["polygon"]["stocksTicker"]
    ELSE EmptyStr

\* C26: the resolved ticker is STOCK_TICKER when the environment sets it, else
\* the --ticker override when non-empty, else the document's stocksTicker; an
\* empty resolved ticker is reported as a missing field (SpecCfg).
C26_TickerPrecedence ==
    (pc \in {"resolved", "raised"} /\ "polygon" \in DOMAIN cfg) =>
        /\ pc = "resolved" => poly["stocksTicker"] = C26_Ticker
        /\ C26_Ticker = EmptyStr =>
              /\ pc = "raised"
              /\ err.what = "Missing polygon config fields"
              /\ \E i \in 1..Len(err.fields) : err.fields[i] = "stocksTicker"

\* the positions of the row sequence that no later row of the same key follows
C27_LastPositions ==
    {i \in 1..Len(rows) :
        \A j \in (i + 1)..Len(rows) : PrimaryKey(rows[j]) # PrimaryKey(rows[i])}

\* the table a completed run leaves, said without batches: the rows that were
\* there under keys the run does not write, and the last row of each key written
C27_Final ==
    {r \in store0 : \A i \in 1..Len(rows) : PrimaryKey(rows[i]) # PrimaryKey(r)}
        \cup {rows[i] : i \in C27_LastPositions}

\* C27: a run that completes with a batch size >= 1 leaves the table every
\* other batch size >= 1 would leave for the same initial table and row
\* sequence, the last row in sequence order giving the values of each key
\* (SpecLoad).
C27_BatchSizeIndependent ==
    (pc = "done" /\ args.batch_size >= 1) =>
        /\ store = C27_Final
        /\ \A b \in 1..(Len(rows) + 1) : ApplyBatches(store0, chunked(rows, b)) = store

\* a run with batches of two completed: its first batch wrote one key twice
\* with different values, its second batch another key
C27_RepeatedKeyInOneBatch ==
    /\ pc = "done"
    /\ args.batch_size = 2
    /\ Len(rows) = 3
    /\ Len(issued) = 2
    /\ PrimaryKey(rows[1]) = PrimaryKey(rows[2])
    /\ rows[1] # rows[2]
    /\ PrimaryKey(rows[3]) # PrimaryKey(rows[1])
    /\ rows[2] \in store /\ rows[1] \notin store

\* C28: whatever integer the batch size is, a run that prints its completion
\* message has upserted all N transformed rows and reports N (SpecLoad).
C28_DoneMeansAllRows ==
    pc = "done" => Flatten(issued) = rows /\ total = Len(rows)

====
